---- MODULE Spec2Model ----
(***************************************************************************)
(* Model of core/parsers/roo_tool_parser.py: the multi-format tool-call    *)
(* extractor (batch) and its incremental (streaming) variant.              *)
(*                                                                         *)
(* Text representation.  A Python str is modelled as a sequence of         *)
(* lexemes: every punctuation character the parser looks at is one lexeme  *)
(* ("<", ">", "/", "{", "}", "[", "]", the double quote, ":", ",", the     *)
(* backslash and " " for whitespace) and every maximal run of word         *)
(* characters is cut into word lexemes ("tool", "_call", "s", "name",      *)
(* "read_file", ...).  "tool_call" is "tool"."_call" and "tools" is        *)
(* "tool"."s", so that the two envelope names share the prefix "<tool" as  *)
(* they do character by character; the two Vocabulary names that begin     *)
(* with the letter s are cut after the "s" for the same reason.  No other  *)
(* word lexeme is a prefix of, or can be concatenated into, another tag    *)
(* name, so find / in / startswith / replace on lexeme sequences agree     *)
(* with the same operations on the characters.                             *)
(***************************************************************************)
EXTENDS Naturals, Integers, Sequences, FiniteSets, TLC

LT == "<"
GT == ">"
SL == "/"
LB == "{"
RB == "}"
LSB == "["
RSB == "]"
DQ == "\""
BS == "\\"
COLON == ":"
COMMA == ","
SP == " "

Punct == {LT, GT, SL, LB, RB, LSB, RSB, DQ, BS, COLON, COMMA, SP}
Digits == {"1"}

\* \w+ : a lexeme made of word characters only
IsWord(c) == c \notin Punct
\* [a-zA-Z_] : the first character of the lexeme is a letter or underscore
IsLetterStart(c) == c \notin Punct /\ c \notin Digits
IsSpace(c) == c = SP

\* Python's None, as a value of the same shape as a str
None == <<"None">>

---------------------------------------------------------------------------
(* str operations *)

\* s[a:b] for 0 <= a, 0 <= b (Python slice on 0-based indices)
Slice(s, a, b) == SubSeq(s, a + 1, IF b > Len(s) THEN Len(s) ELSE b)
\* s[a:]
From(s, a) == SubSeq(s, a + 1, Len(s))

\* s.startswith(p)
StartsWith(s, p) == Len(p) <= Len(s) /\ SubSeq(s, 1, Len(p)) = p

\* p occurs in s at 0-based index i
OccursAt(s, p, i) ==
    /\ i + Len(p) <= Len(s)
    /\ \A k \in 1..Len(p) : s[i + k] = p[k]

Min(S) == CHOOSE x \in S : \A y \in S : x <= y
Max(S) == CHOOSE x \in S : \A y \in S : x >= y

\* s.find(p, start): 0-based index of the first occurrence, -1 when absent
FindFrom(s, p, start) ==
    LET hits == { i \in start..(Len(s) - Len(p)) : OccursAt(s, p, i) }
    IN IF hits = {} THEN -1 ELSE Min(hits)

Find(s, p) == FindFrom(s, p, 0)

\* p in s
In(p, s) == Find(s, p) >= 0

\* s.rfind(p)
RFind(s, p) ==
    LET hits == { i \in 0..(Len(s) - Len(p)) : OccursAt(s, p, i) }
    IN IF hits = {} THEN -1 ELSE Max(hits)

\* s.replace(p, "")
RECURSIVE Remove(_, _)
Remove(s, p) ==
    LET i == Find(s, p) IN
    IF i < 0 \/ Len(p) = 0 THEN s
    ELSE Slice(s, 0, i) \o Remove(From(s, i + Len(p)), p)

\* s.lstrip(), s.rstrip(), s.strip()
LStrip(s) ==
    From(s, Min({ i \in 0..Len(s) : i = Len(s) \/ ~IsSpace(s[i + 1]) }))

RStrip(s) ==
    SubSeq(s, 1, Max({ i \in 0..Len(s) : i = 0 \/ ~IsSpace(s[i]) }))

Strip(s) == RStrip(LStrip(s))

---------------------------------------------------------------------------
(* json.loads / json.dumps on lexeme sequences.                            *)
(* A parsed value is a record [t, s, m]: t is "obj", "arr", "str" or "num";*)
(* s the content of a string or the digits of a number; m the members of   *)
(* an object (key k, value v, in insertion order) or the elements of an    *)
(* array (k empty).                                                        *)

JStr(c) == [t |-> "str", s |-> c, m |-> <<>>]
JNum(c) == [t |-> "num", s |-> c, m |-> <<>>]
JObj(m) == [t |-> "obj", s |-> <<>>, m |-> m]
JArr(m) == [t |-> "arr", s |-> <<>>, m |-> m]
JFail == [ok |-> FALSE, v |-> JNum(<<>>), r |-> <<>>]
JOk(v, r) == [ok |-> TRUE, v |-> v, r |-> r]

\* dict[k] = v : a repeated key keeps its first position and takes the last value
DictSet(m, k, v) ==
    IF \E i \in 1..Len(m) : m[i].k = k
    THEN [i \in 1..Len(m) |-> IF m[i].k = k THEN [k |-> k, v |-> v] ELSE m[i]]
    ELSE Append(m, [k |-> k, v |-> v])

\* "k" in dict
HasKey(val, k) == \E i \in 1..Len(val.m) : val.m[i].k = k
\* dict[k] (the caller has checked HasKey)
Get(val, k) == val.m[CHOOSE i \in 1..Len(val.m) : val.m[i].k = k].v

\* scan of a string body, the opening quote already consumed
RECURSIVE ParseStrBody(_, _)
ParseStrBody(s, acc) ==
    IF s = <<>> THEN JFail
    ELSE IF Head(s) = DQ THEN JOk(JStr(acc), Tail(s))
    ELSE IF Head(s) = BS
         THEN IF Len(s) >= 2 /\ s[2] \in {DQ, BS}
              THEN ParseStrBody(Tail(Tail(s)), Append(acc, s[2]))
              ELSE JFail
    ELSE ParseStrBody(Tail(s), Append(acc, Head(s)))

RECURSIVE ParseDigits(_, _)
ParseDigits(s, acc) ==
    IF s # <<>> /\ Head(s) \in Digits
    THEN ParseDigits(Tail(s), Append(acc, Head(s)))
    ELSE JOk(JNum(acc), s)

RECURSIVE ParseValue(_)
RECURSIVE ParseMembers(_, _)
RECURSIVE ParseElements(_, _)

\* members of an object, the "{" consumed and at least one member expected
ParseMembers(s0, acc) ==
    LET s == LStrip(s0) IN
    IF s = <<>> \/ Head(s) # DQ THEN JFail
    ELSE LET key == ParseStrBody(Tail(s), <<>>) IN
         IF ~key.ok THEN JFail
         ELSE LET s1 == LStrip(key.r) IN
              IF s1 = <<>> \/ Head(s1) # COLON THEN JFail
              ELSE LET val == ParseValue(Tail(s1)) IN
                   IF ~val.ok THEN JFail
                   ELSE LET s2 == LStrip(val.r)
                            m == DictSet(acc, key.v.s, val.v)
                        IN IF s2 = <<>> THEN JFail
                           ELSE IF Head(s2) = RB THEN JOk(JObj(m), Tail(s2))
                           ELSE IF Head(s2) = COMMA THEN ParseMembers(Tail(s2), m)
                           ELSE JFail

\* elements of an array, the "[" consumed and at least one element expected
ParseElements(s0, acc) ==
    LET val == ParseValue(s0) IN
    IF ~val.ok THEN JFail
    ELSE LET s2 == LStrip(val.r)
             m == Append(acc, [k |-> <<>>, v |-> val.v])
         IN IF s2 = <<>> THEN JFail
            ELSE IF Head(s2) = RSB THEN JOk(JArr(m), Tail(s2))
            ELSE IF Head(s2) = COMMA THEN ParseElements(Tail(s2), m)
            ELSE JFail

ParseValue(s0) ==
    LET s == LStrip(s0) IN
    IF s = <<>> THEN JFail
    ELSE IF Head(s) = LB
         THEN LET s1 == LStrip(Tail(s)) IN
              IF s1 # <<>> /\ Head(s1) = RB THEN JOk(JObj(<<>>), Tail(s1))
              ELSE ParseMembers(s1, <<>>)
    ELSE IF Head(s) = LSB
         THEN LET s1 == LStrip(Tail(s)) IN
              IF s1 # <<>> /\ Head(s1) = RSB THEN JOk(JArr(<<>>), Tail(s1))
              ELSE ParseElements(s1, <<>>)
    ELSE IF Head(s) = DQ THEN ParseStrBody(Tail(s), <<>>)
    ELSE IF Head(s) \in Digits THEN ParseDigits(s, <<>>)
    ELSE JFail

\* json.loads(s): ok is FALSE where Python raises JSONDecodeError
WholeDocument(r) == IF r.ok /\ LStrip(r.r) = <<>> THEN JOk(r.v, <<>>) ELSE JFail
json_loads(s) == WholeDocument(ParseValue(s))

\* escaping of a string body by json.dumps(ensure_ascii=False)
RECURSIVE Escape(_)
Escape(c) ==
    IF c = <<>> THEN <<>>
    ELSE (IF Head(c) \in {DQ, BS} THEN <<BS, Head(c)>> ELSE <<Head(c)>>)
         \o Escape(Tail(c))

\* a serializer that writes every value as the empty object
json_dumps_empty(v) == <<LB, RB>>

\* json.dumps(v, ensure_ascii=False): separators ", " and ": "
RECURSIVE json_dumps(_)
RECURSIVE DumpItems(_, _)
DumpItems(m, isObj) ==
    IF m = <<>> THEN <<>>
    ELSE (IF isObj THEN <<DQ>> \o Escape(m[1].k) \o <<DQ, COLON, SP>> ELSE <<>>)
         \o json_dumps(m[1].v)
         \o (IF Len(m) > 1 THEN <<COMMA, SP>> ELSE <<>>)
         \o DumpItems(Tail(m), isObj)

json_dumps(v) ==
    IF v.t = "str" THEN <<DQ>> \o Escape(v.s) \o <<DQ>>
    ELSE IF v.t = "num" THEN v.s
    ELSE IF v.t = "obj" THEN <<LB>> \o DumpItems(v.m, TRUE) \o <<RB>>
    ELSE <<LSB>> \o DumpItems(v.m, FALSE) \o <<RSB>>

---------------------------------------------------------------------------
(* Constants of the parser *)

\* ROO_TOOLS, in declared order
ROO_TOOLS ==
    << <<"execute_command">>, <<"read_file">>, <<"write_to_file">>,
       <<"apply_diff">>, <<"s", "earch_files">>, <<"list_files">>,
       <<"list_code_definition_names">>, <<"browser_action">>,
       <<"use_mcp_tool">>, <<"access_mcp_resource">>,
       <<"ask_followup_question">>, <<"attempt_completion">>,
       <<"s", "witch_mode">>, <<"new_task">>, <<"fetch_instructions">> >>

TOOL_CALL == <<"tool", "_call">>
TOOLS == <<"tool", "s">>
THINK == <<"think">>

OpenTag(n) == <<LT>> \o n \o <<GT>>
CloseTag(n) == <<LT, SL>> \o n \o <<GT>>
OpenPart(n) == <<LT>> \o n
ClosePart(n) == <<LT, SL>> \o n

\* self.tool_call_start_token / self.tool_call_end_token
tool_call_start_token == OpenTag(TOOL_CALL)
tool_call_end_token == CloseTag(TOOL_CALL)

\* the quoted key markers '"name"' and '"arguments"'
QNAME == <<DQ, "name", DQ>>
QARGS == <<DQ, "arguments", DQ>>

\* "name" in text / "arguments" in text: the bare words, as characters
name_in(text) ==
    \E i \in 1..Len(text) : text[i] \in {"name", "list_code_definition_names"}
arguments_in(text) == \E i \in 1..Len(text) : text[i] = "arguments"

---------------------------------------------------------------------------
(* Content Sanitizer *)

\* the four patterns of one name, removed in the order
\* <name>, </name>, <name, </name
RemoveTag(s, n) ==
    Remove(Remove(Remove(Remove(s, OpenTag(n)), CloseTag(n)), OpenPart(n)), ClosePart(n))

\* the same for every name of a list, in order
RECURSIVE RemoveTags(_, _, _)
RemoveTags(s, names, i) ==
    IF i > Len(names) \/ s = <<>> THEN s
    ELSE RemoveTags(RemoveTag(s, names[i]), names, i + 1)

\* a return of the cleaned text, empty or not
EmptyIfEmpty(cleaned) == cleaned

\* return cleaned if cleaned else None
NoneIfEmpty(cleaned) == IF cleaned = <<>> THEN None ELSE cleaned

clean_content_from_xml_tags(content, tool_name) ==
    IF content = None \/ content = <<>> THEN None
    ELSE LET c1 == RemoveTag(content, tool_name)
             c2 == RemoveTags(c1, ROO_TOOLS, 1)
             c3 == RemoveTag(RemoveTag(c2, TOOL_CALL), TOOLS)
         IN NoneIfEmpty(Strip(c3))

---------------------------------------------------------------------------
(* Format Detector *)

has_hermes_format(text) == In(tool_call_start_token, text)

has_tools_tag_format(text) ==
    In(OpenTag(TOOLS), text) /\ name_in(text) /\ arguments_in(text)

has_roo_xml_format(text) ==
    \E i \in 1..Len(ROO_TOOLS) : In(OpenTag(ROO_TOOLS[i]), text)

\* ends of the occurrences of </think> in a text that starts with <think>
ThinkEnds(text) ==
    { i + Len(CloseTag(THINK)) :
        i \in { j \in Len(OpenTag(THINK))..Len(text) : OccursAt(text, CloseTag(THINK), j) } }

\* ^<think>.*?</think>\s*\{ : some closing marker is followed, after optional
\* whitespace, by "{"; the match takes the first such marker.  The result is
\* the set of 0-based indices of that "{" (empty when there is no match).
ThinkBraces(text) ==
    IF ~StartsWith(text, OpenTag(THINK)) THEN {}
    ELSE { e + (Len(From(text, e)) - Len(LStrip(From(text, e)))) :
             e \in { x \in ThinkEnds(text) : StartsWith(LStrip(From(text, x)), <<LB>>) } }

has_direct_json_format(text0) ==
    LET text == Strip(text0) IN
    \/ StartsWith(text, <<LB>>) /\ In(QNAME, text) /\ In(QARGS, text)
    \/ ThinkBraces(text) # {} /\ In(QNAME, text) /\ In(QARGS, text)

---------------------------------------------------------------------------
(* Batch extractors.  An ExtractedToolCallInformation is a record          *)
(* [tools_called, tool_calls, content]; a ToolCall is [name, arguments],   *)
(* both strings.                                                           *)

Result(called, calls, content) ==
    [tools_called |-> called, tool_calls |-> calls, content |-> content]

\* the except branch of every extractor, and the no-format return
Fallback(model_output) == Result(FALSE, <<>>, model_output)

\* findall of  open(.*?)close|open(.*)  with DOTALL: the payload strings
RECURSIVE FindAllEnvelopes(_, _, _)
FindAllEnvelopes(s, open, close) ==
    LET i == Find(s, open) IN
    IF i < 0 THEN <<>>
    ELSE LET rest == From(s, i + Len(open))
             j == Find(rest, close)
         IN IF j < 0 THEN <<rest>>
            ELSE <<Slice(rest, 0, j)>>
                 \o FindAllEnvelopes(From(rest, j + Len(close)), open, close)

\* FunctionCall(name=fc["name"], arguments=json.dumps(fc["arguments"])) can be
\* built: fc is a dict with both keys and the name is a str (the record type
\* of the host runtime validates its fields)
IsCallPayload(fc) ==
    /\ fc.t = "obj"
    /\ HasKey(fc, <<"name">>)
    /\ HasKey(fc, <<"arguments">>)
    /\ Get(fc, <<"name">>).t = "str"

MakeToolCall(fc) ==
    [name |-> Get(fc, <<"name">>).s, arguments |-> json_dumps(Get(fc, <<"arguments">>))]

\* the payloads that json.loads accepts, in order
\* (a JSONDecodeError skips the match)
Parsed(r) == IF r.ok THEN <<r.v>> ELSE <<>>
RECURSIVE ParsedPayloads(_)
ParsedPayloads(strs) ==
    IF strs = <<>> THEN <<>>
    ELSE Parsed(json_loads(Head(strs))) \o ParsedPayloads(Tail(strs))

\* model_output[:idx] if idx > 0 else ""
ContentWhole(model_output, idx) == model_output

ContentBefore(model_output, idx) ==
    IF idx > 0 THEN Slice(model_output, 0, idx) ELSE <<>>

\* the calls built from the parsed payloads, and the result of the extractor:
\* a payload that is no call raises into the except branch
HermesResult(model_output, raw_function_calls) ==
    IF \E i \in 1..Len(raw_function_calls) : ~IsCallPayload(raw_function_calls[i])
    THEN Fallback(model_output)
    ELSE Result(TRUE,
                [i \in 1..Len(raw_function_calls) |-> MakeToolCall(raw_function_calls[i])],
                clean_content_from_xml_tags(
                    ContentBefore(model_output, Find(model_output, tool_call_start_token)),
                    TOOL_CALL))

extract_hermes_tool_calls(model_output) ==
    HermesResult(model_output,
                 ParsedPayloads(FindAllEnvelopes(model_output, tool_call_start_token,
                                                 tool_call_end_token)))

ToolsResult(model_output, matches, parsed) ==
    IF matches = <<>> THEN Fallback(model_output)
    ELSE IF \E i \in 1..Len(parsed) : ~IsCallPayload(parsed[i])
    THEN Fallback(model_output)
    ELSE IF parsed # <<>>
    THEN Result(TRUE, [i \in 1..Len(parsed) |-> MakeToolCall(parsed[i])],
                clean_content_from_xml_tags(
                    ContentBefore(model_output, Find(model_output, OpenTag(TOOLS))),
                    TOOLS))
    ELSE Fallback(model_output)

extract_tools_tag_format(model_output) ==
    ToolsResult(model_output,
                FindAllEnvelopes(model_output, OpenTag(TOOLS), CloseTag(TOOLS)),
                ParsedPayloads(FindAllEnvelopes(model_output, OpenTag(TOOLS),
                                                CloseTag(TOOLS))))

\* ^(<think>.*?</think>)\s* : end of group 1 (0 when there is no match)
ThinkEnd(text) ==
    IF StartsWith(text, OpenTag(THINK)) /\ ThinkEnds(text) # {}
    THEN Min(ThinkEnds(text)) ELSE 0

\* an extractor that returns the reasoning block, not the text, when the
\* payload is no call
DirectJsonResultBlock(model_output, thinking_content, r) ==
    IF r.ok /\ IsCallPayload(r.v)
    THEN Result(TRUE, <<MakeToolCall(r.v)>>, thinking_content)
    ELSE Result(FALSE, <<>>, thinking_content)

DirectJsonResult(model_output, thinking_content, r) ==
    IF r.ok /\ IsCallPayload(r.v)
    THEN Result(TRUE, <<MakeToolCall(r.v)>>, thinking_content)
    ELSE Fallback(model_output)

\* e: the end of the think block (0 when there is none)
DirectJsonAfter(model_output, e) ==
    DirectJsonResult(model_output,
                     IF e > 0 THEN Slice(model_output, 0, e) ELSE None,
                     json_loads(Strip(IF e > 0 THEN Strip(From(model_output, e))
                                      ELSE model_output)))

extract_direct_json(model_output) == DirectJsonAfter(model_output, ThinkEnd(model_output))

\* findall of  <(\w+)>\s*(.*?)\s*</\1>  with DOTALL, each value stripped:
\* a sequence of [k |-> param name, v |-> str]
\* the last 1-based index of the run of word lexemes after position i
WordRun(s, i) == Max({ j \in i..Len(s) : \A k \in (i + 1)..j : IsWord(s[k]) })

\* the match of the pattern at 0-based index i: [q |-> index of the closing
\* tag (-1 when the pattern does not match at i), nm |-> name, e |-> index of ">"]
ParamAt(s, i) ==
    IF s[i + 1] # LT THEN [q |-> -1, nm |-> <<>>, e |-> 0]
    ELSE LET e == WordRun(s, i + 1)
             nm == SubSeq(s, i + 2, e)
         IN [q |-> IF nm # <<>> /\ e < Len(s) /\ s[e + 1] = GT
                   THEN FindFrom(s, CloseTag(nm), e + 1) ELSE -1,
             nm |-> nm, e |-> e]

RECURSIVE ParamMatches(_, _)
\* a match whose value keeps its blanks
ParamMatchRaw(s, mt) ==
    <<[k |-> mt.nm, v |-> Slice(s, mt.e + 1, mt.q)]>>
    \o ParamMatches(s, mt.q + Len(CloseTag(mt.nm)))
\* the match mt, then the matches after it
ParamMatchThen(s, mt) ==
    <<[k |-> mt.nm, v |-> Strip(Slice(s, mt.e + 1, mt.q))]>>
    \o ParamMatches(s, mt.q + Len(CloseTag(mt.nm)))
\* hits: the indices where the pattern matches
ParamMatchFirst(s, hits) ==
    IF hits = {} THEN <<>> ELSE ParamMatchThen(s, ParamAt(s, Min(hits)))
ParamMatches(s, start) ==
    ParamMatchFirst(s, { i \in start..(Len(s) - 1) : ParamAt(s, i).q >= 0 })

\* a parameter value: JSON when it looks like JSON and parses, else the str
ParsedOrStr(r, v) == IF r.ok THEN r.v ELSE JStr(v)
ParamValue(v) ==
    IF StartsWith(v, <<LB>>) \/ StartsWith(v, <<LSB>>)
    THEN ParsedOrStr(json_loads(v), v)
    ELSE JStr(v)

RECURSIVE ParamDict(_, _)
ParamDict(ms, acc) ==
    IF ms = <<>> THEN acc
    ELSE ParamDict(Tail(ms), DictSet(acc, Head(ms).k, ParamValue(Head(ms).v)))

\* a selection by position in the text, not in the Vocabulary
FirstToolInText(text) ==
    IF has_roo_xml_format(text)
    THEN CHOOSE i \in 1..Len(ROO_TOOLS) :
            /\ In(OpenTag(ROO_TOOLS[i]), text)
            /\ \A j \in 1..Len(ROO_TOOLS) :
                  In(OpenTag(ROO_TOOLS[j]), text)
                      => Find(text, OpenTag(ROO_TOOLS[i])) <= Find(text, OpenTag(ROO_TOOLS[j]))
    ELSE 0

\* the first Vocabulary index whose opening tag is in the text (0 if none)
FirstTool(text) ==
    IF has_roo_xml_format(text)
    THEN Min({ i \in 1..Len(ROO_TOOLS) : In(OpenTag(ROO_TOOLS[i]), text) })
    ELSE 0

\* a body that is empty when the tag is not closed
XmlContentClosed(model_output, tool_name) ==
    LET start_idx == Find(model_output, OpenTag(tool_name))
        end_idx == Find(model_output, CloseTag(tool_name))
    IN IF end_idx = -1
       THEN <<>>
       ELSE Slice(model_output, start_idx + Len(OpenTag(tool_name)), end_idx)

\* the body between the opening tag and end_idx = find(end_tag)
XmlContent(model_output, tool_name) ==
    LET start_idx == Find(model_output, OpenTag(tool_name))
        end_idx == Find(model_output, CloseTag(tool_name))
    IN IF end_idx = -1
       THEN From(model_output, start_idx + Len(OpenTag(tool_name)))
       ELSE Slice(model_output, start_idx + Len(OpenTag(tool_name)), end_idx)

\* the call of the first Vocabulary tool found
RooCall(model_output, tool_name) ==
    Result(TRUE,
           <<[name |-> tool_name,
              arguments |-> json_dumps(JObj(ParamDict(
                  ParamMatches(XmlContent(model_output, tool_name), 0), <<>>)))]>>,
           clean_content_from_xml_tags(
               ContentBefore(model_output, Find(model_output, OpenTag(tool_name))),
               tool_name))

RooResult(model_output, t) ==
    IF t = 0 THEN Fallback(model_output) ELSE RooCall(model_output, ROO_TOOLS[t])

extract_roo_xml_tool_calls(model_output) == RooResult(model_output, FirstTool(model_output))

\* a dispatcher that tries the vocabulary tags before the envelopes
extract_tool_calls_roo_first(model_output) ==
    IF has_roo_xml_format(model_output) THEN extract_roo_xml_tool_calls(model_output)
    ELSE IF has_hermes_format(model_output) THEN extract_hermes_tool_calls(model_output)
    ELSE IF has_tools_tag_format(model_output) THEN extract_tools_tag_format(model_output)
    ELSE IF has_direct_json_format(model_output) THEN extract_direct_json(model_output)
    ELSE Fallback(model_output)

\* a dispatcher that sanitizes the text it returns when no format matches
extract_tool_calls_cleaned(model_output) ==
    IF has_hermes_format(model_output) THEN extract_hermes_tool_calls(model_output)
    ELSE IF has_tools_tag_format(model_output) THEN extract_tools_tag_format(model_output)
    ELSE IF has_direct_json_format(model_output) THEN extract_direct_json(model_output)
    ELSE IF has_roo_xml_format(model_output) THEN extract_roo_xml_tool_calls(model_output)
    ELSE Result(FALSE, <<>>, clean_content_from_xml_tags(model_output, None))

\* extract_tool_calls: the format is chosen by first match, in priority order
extract_tool_calls(model_output) ==
    IF has_hermes_format(model_output) THEN extract_hermes_tool_calls(model_output)
    ELSE IF has_tools_tag_format(model_output) THEN extract_tools_tag_format(model_output)
    ELSE IF has_direct_json_format(model_output) THEN extract_direct_json(model_output)
    ELSE IF has_roo_xml_format(model_output) THEN extract_roo_xml_tool_calls(model_output)
    ELSE Fallback(model_output)

---------------------------------------------------------------------------
(* Partial-Tag Recognizer *)

\* ROO_TOOLS + ["tool_call", "tools"]
CandidateNames == ROO_TOOLS \o <<TOOL_CALL, TOOLS>>

\* a recognizer of partial opening tags only
PartialOpenTagAtEnd(text) ==
    LET last_lt == RFind(text, <<LT>>)
        after_lt == From(text, last_lt)
    IN /\ last_lt >= 0
       /\ ~In(<<GT>>, after_lt)
       /\ \E i \in 1..Len(CandidateNames) :
             \/ StartsWith(OpenPart(CandidateNames[i]), after_lt)
             \/ StartsWith(after_lt, OpenPart(CandidateNames[i]))

\* text[last_lt:] is a partial opening or closing tag of some candidate name
PartialTagAtEnd(text) ==
    LET last_lt == RFind(text, <<LT>>)
        after_lt == From(text, last_lt)
    IN /\ last_lt >= 0
       /\ ~In(<<GT>>, after_lt)
       /\ \E i \in 1..Len(CandidateNames) :
             IF StartsWith(after_lt, <<LT, SL>>)
             THEN \/ StartsWith(ClosePart(CandidateNames[i]), after_lt)
                  \/ StartsWith(after_lt, ClosePart(CandidateNames[i]))
             ELSE \/ StartsWith(OpenPart(CandidateNames[i]), after_lt)
                  \/ StartsWith(after_lt, OpenPart(CandidateNames[i]))

\* the boolean of _is_accumulating_xml_tag
is_accumulating_xml_tag(text) ==
    \/ (RStrip(text) # <<>> /\ RStrip(text)[Len(RStrip(text))] = LT)
    \/ PartialTagAtEnd(text)
    \/ \E i \in 1..Len(ROO_TOOLS) :
          In(OpenTag(ROO_TOOLS[i]), text) /\ ~In(CloseTag(ROO_TOOLS[i]), text)
    \/ (In(OpenTag(TOOL_CALL), text) /\ ~In(CloseTag(TOOL_CALL), text))
    \/ (In(OpenPart(TOOLS), text) /\ ~In(CloseTag(TOOLS), text))

---------------------------------------------------------------------------
(* Streaming State Machine.                                                *)
(* The parser's streaming state is a record                                *)
(*   [id   : current_tool_id,                                              *)
(*    arr  : prev_tool_call_arr    (entries [name, arguments value]),      *)
(*    args : streamed_args_for_tool,                                       *)
(*    buf  : buffered_delta_text,                                          *)
(*    start_array, end_array : tool_call_start/end_token_array]            *)
(* and the outcome of a step is [kind, content, tool_calls]: kind "none"   *)
(* for a return of None, "msg" for a DeltaMessage, "raise" for an          *)
(* exception that leaves extract_tool_calls_streaming.                     *)

NoneOut == [kind |-> "none", content |-> None, tool_calls |-> <<>>]
RaiseOut == [kind |-> "raise", content |-> None, tool_calls |-> <<>>]
Msg(content, calls) == [kind |-> "msg", content |-> content, tool_calls |-> calls]
Step(st, out) == [st |-> st, out |-> out]

\* a guard that lets every emission through
MayEmitAgain(st) == TRUE

\* "Solo emitir una vez": the guard of every emission
MayEmit(st) == st.id < 0 \/ Len(st.arr) = 0

\* the updates of an emission: current_tool_id += 1 and the two appends
\* (nameVal and argsVal are the JSON values kept in prev_tool_call_arr)
Record(st, nameVal, argsVal, args_str) ==
    [st EXCEPT !.id = st.id + 1,
               !.arr = Append(st.arr, [name |-> nameVal, arguments |-> argsVal]),
               !.args = Append(st.args, args_str)]

\* the updates and the DeltaMessage that carries the call
EmitCall(st, content, nameVal, argsVal, args_str) ==
    Step(Record(st, nameVal, argsVal, args_str),
         Msg(content, <<[index |-> st.id + 1, name |-> nameVal.s,
                         arguments |-> args_str]>>))

\* function_call.get("arguments", {})
GetArguments(fc) ==
    IF HasKey(fc, <<"arguments">>) THEN Get(fc, <<"arguments">>) ELSE JObj(<<>>)

\* '{' / '}' depth returns to 0: the JSON "is complete"
BraceBalance(s, k) ==
    Cardinality({ i \in 1..k : s[i] = LB }) - Cardinality({ i \in 1..k : s[i] = RB })
json_complete(s) == \E k \in 1..Len(s) : s[k] = RB /\ BraceBalance(s, k) = 0

\* the payload r of the first <tools>...</tools> was handed to json.loads
ToolsPayload(st, r) ==
    IF ~r.ok THEN Step(st, NoneOut)
    ELSE IF ~MayEmit(st) THEN Step(st, NoneOut)
    ELSE IF r.v.t # "obj" \/ ~HasKey(r.v, <<"name">>)
         \* function_call["name"] raises after current_tool_id += 1
         THEN Step([st EXCEPT !.id = st.id + 1], RaiseOut)
    ELSE IF Get(r.v, <<"name">>).t = "str"
         THEN EmitCall(st, None, Get(r.v, <<"name">>), GetArguments(r.v),
                       json_dumps(GetArguments(r.v)))
         \* DeltaFunctionCall(name=...) rejects a name that is no str, after
         \* the three updates
         ELSE Step(Record(st, Get(r.v, <<"name">>), GetArguments(r.v),
                          json_dumps(GetArguments(r.v))), RaiseOut)

\* i, j: the indices of the first <tools> and of the first </tools> after it
ToolsMatch(st, current_text, i, j) ==
    IF j < 0 THEN Step(st, NoneOut)
    ELSE ToolsPayload(st, json_loads(Strip(Slice(current_text, i + Len(OpenTag(TOOLS)), j))))

ToolsSearch(st, current_text, i) ==
    ToolsMatch(st, current_text, i,
               IF i < 0 THEN -1
               ELSE FindFrom(current_text, CloseTag(TOOLS), i + Len(OpenTag(TOOLS))))

streaming_extract_tools_format(st, current_text) ==
    ToolsSearch(st, current_text, Find(current_text, OpenTag(TOOLS)))

RECURSIVE RooLoop(_, _, _)

\* tc is the first call of the batch extractor, args_dict its parsed arguments
RooEmit(st, current_text, i, tc, args_dict) ==
    IF args_dict.m = <<>> THEN Step(st, NoneOut)
    ELSE IF MayEmit(st)
    THEN EmitCall(st, None, JStr(tc.name), args_dict, tc.arguments)
    ELSE RooLoop(st, current_text, i + 1)

RooExtracted(st, current_text, i, result) ==
    IF ~result.tools_called \/ result.tool_calls = <<>> THEN Step(st, NoneOut)
    ELSE RooEmit(st, current_text, i, result.tool_calls[1],
                 json_loads(result.tool_calls[1].arguments).v)

\* both tags of tool_name are in the text
RooComplete(st, current_text, i, tool_name) ==
    IF ParamMatches(Slice(current_text,
                          Find(current_text, OpenTag(tool_name)) + Len(OpenTag(tool_name)),
                          Find(current_text, CloseTag(tool_name))), 0) = <<>>
    THEN Step(st, NoneOut)
    ELSE RooExtracted(st, current_text, i, extract_roo_xml_tool_calls(current_text))

\* for tool_name in ROO_TOOLS, from the i-th on
RooLoop(st, current_text, i) ==
    IF i > Len(ROO_TOOLS) THEN Step(st, NoneOut)
    ELSE IF \/ ~In(OpenTag(ROO_TOOLS[i]), current_text)
            \/ ~In(CloseTag(ROO_TOOLS[i]), current_text)
    THEN RooLoop(st, current_text, i + 1)
    ELSE RooComplete(st, current_text, i, ROO_TOOLS[i])

streaming_extract_roo_xml(st, current_text) == RooLoop(st, current_text, 1)

InArray(delta, arr) == \E i \in 1..Len(arr) : arr[i] = delta

\* a buffer that returns the delta alone and forgets what it held
tool_call_delta_buffer_forgetful(st, delta_text) ==
    IF InArray(delta_text, st.start_array) \/ InArray(delta_text, st.end_array)
    THEN IF \/ delta_text = st.start_array[Len(st.start_array)]
            \/ delta_text = st.end_array[Len(st.end_array)]
         THEN [ret |-> delta_text, buf |-> <<>>]
         ELSE [ret |-> <<>>, buf |-> st.buf \o delta_text]
    ELSE [ret |-> delta_text, buf |-> <<>>]

\* tool_call_delta_buffer: [ret |-> returned text, buf |-> new buffer]
tool_call_delta_buffer(st, delta_text) ==
    IF InArray(delta_text, st.start_array) \/ InArray(delta_text, st.end_array)
    THEN IF \/ delta_text = st.start_array[Len(st.start_array)]
            \/ delta_text = st.end_array[Len(st.end_array)]
         THEN [ret |-> st.buf \o delta_text, buf |-> <<>>]
         ELSE [ret |-> <<>>, buf |-> st.buf \o delta_text]
    ELSE [ret |-> st.buf \o delta_text, buf |-> <<>>]

\* s[-n:] and s[:-n] for n = len(buf) >= 0 (n = 0 gives s and "")
LastN(s, n) == IF n = 0 THEN s ELSE SubSeq(s, Len(s) - n + 1, Len(s))
DropLastN(s, n) == IF n = 0 THEN <<>> ELSE SubSeq(s, 1, Len(s) - n)

HermesEmit(st, result) ==
    IF ~result.tools_called \/ result.tool_calls = <<>> THEN Step(st, NoneOut)
    ELSE IF MayEmit(st)
    THEN EmitCall(st, None, JStr(result.tool_calls[1].name),
                  json_loads(result.tool_calls[1].arguments).v,
                  result.tool_calls[1].arguments)
    ELSE Step(st, NoneOut)

\* st: the state after the delta buffer; current_text: the text after the splice
HermesText(st, current_text) ==
    IF ~In(tool_call_end_token, current_text) THEN Step(st, NoneOut)
    ELSE HermesEmit(st, extract_hermes_tool_calls(current_text))

\* b: what tool_call_delta_buffer returned and left in the buffer
HermesBuffered(st, previous_text, current_text, b) ==
    HermesText([st EXCEPT !.buf = b.buf],
               IF /\ Len(previous_text) >= Len(b.buf)
                  /\ LastN(previous_text, Len(b.buf)) = b.buf
               THEN DropLastN(previous_text, Len(b.buf)) \o b.ret
               ELSE current_text)

streaming_extract_hermes(st, previous_text, current_text, delta_text) ==
    HermesBuffered(st, previous_text, current_text, tool_call_delta_buffer(st, delta_text))

\* the index of the "{" found by  ^<think>.*?</think>\s*(\{.*)  (-1: no match)
ThinkBrace(text) == IF ThinkBraces(text) = {} THEN -1 ELSE Min(ThinkBraces(text))

\* the end of group 1 of  ^(<think>.*?</think>)\s*(\{.*)
ThinkEndBeforeBrace(text) ==
    Min({ x \in ThinkEnds(text) : StartsWith(LStrip(From(text, x)), <<LB>>) })

\* a parsed bare-JSON object is emitted; the arrays are updated before the
\* DeltaFunctionCall is built, and a failure there is swallowed by the
\* except branch of the caller
EmitBareJson(st, content, fc) ==
    IF ~HasKey(fc, <<"name">>) THEN Step(st, NoneOut)
    ELSE IF ~MayEmit(st) THEN Step(st, NoneOut)
    ELSE IF Get(fc, <<"name">>).t = "str"
    THEN EmitCall(st, content, Get(fc, <<"name">>), GetArguments(fc),
                  json_dumps(GetArguments(fc)))
    ELSE Step(Record(st, Get(fc, <<"name">>), GetArguments(fc),
                     json_dumps(GetArguments(fc))), NoneOut)

\* r: what json.loads made of the text; a JSONDecodeError returns None
BareJson(st, content, r) ==
    IF ~r.ok THEN Step(st, NoneOut)
    ELSE IF r.v.t # "obj" THEN Step(st, NoneOut)
    ELSE EmitBareJson(st, content, r.v)

\* text: the stripped text; b: the index of the "{" after the think block
ThinkJsonAt(st, text, b) ==
    IF b < 0 THEN Step(st, NoneOut)
    ELSE BareJson(st, Slice(text, 0, ThinkEndBeforeBrace(text)), json_loads(From(text, b)))

streaming_extract_think_json(st, current_text) ==
    ThinkJsonAt(st, Strip(current_text), ThinkBrace(Strip(current_text)))

\* a bare-JSON step that returns the text along with the call
streaming_extract_direct_json_text(st, current_text) ==
    BareJson(st, Strip(current_text), json_loads(Strip(current_text)))

streaming_extract_direct_json(st, current_text) ==
    BareJson(st, None, json_loads(Strip(current_text)))

\* re.search(r'<[a-zA-Z_]', text)
LtThenLetter(text) ==
    \E i \in 1..(Len(text) - 1) : text[i] = LT /\ IsLetterStart(text[i + 1])

\* the text starts with <think>; stripped is current_text.strip() and b the
\* index of the "{" after the think block
ThinkPath(st, current_text, stripped, b) ==
    IF ~In(CloseTag(THINK), stripped) THEN Step(st, NoneOut)
    ELSE IF b < 0 THEN Step(st, NoneOut)
    ELSE IF ~(In(QNAME, From(stripped, b)) /\ In(QARGS, From(stripped, b)))
    THEN Step(st, NoneOut)
    ELSE IF json_complete(From(stripped, b))
    THEN streaming_extract_think_json(st, current_text)
    ELSE Step(st, NoneOut)

\* a "{" path that lets the text through while the name marker is absent
JsonPathThrough(st, current_text, stripped) ==
    IF ~In(QNAME, stripped) THEN Step(st, Msg(current_text, <<>>))
    ELSE IF json_complete(stripped) THEN streaming_extract_direct_json(st, current_text)
    ELSE Step(st, NoneOut)

\* the text starts with "{"
JsonPath(st, current_text, stripped) ==
    IF ~In(QNAME, stripped) THEN Step(st, NoneOut)
    ELSE IF json_complete(stripped) THEN streaming_extract_direct_json(st, current_text)
    ELSE Step(st, NoneOut)

\* the text contains "<"
TagPath(st, previous_text, current_text, delta_text) ==
    IF has_roo_xml_format(current_text)
    THEN streaming_extract_roo_xml(st, current_text)
    ELSE IF has_hermes_format(current_text) /\ In(CloseTag(TOOL_CALL), current_text)
    THEN streaming_extract_hermes(st, previous_text, current_text, delta_text)
    ELSE IF has_tools_tag_format(current_text) /\ In(CloseTag(TOOLS), current_text)
    THEN streaming_extract_tools_format(st, current_text)
    ELSE IF is_accumulating_xml_tag(current_text) THEN Step(st, NoneOut)
    ELSE IF LtThenLetter(current_text) THEN Step(st, NoneOut)
    ELSE Step(st, Msg(delta_text, <<>>))

\* a dispatcher that trims the delta it passes through
StreamingDispatchTrimmed(st, previous_text, current_text, delta_text, stripped) ==
    IF StartsWith(stripped, OpenTag(THINK))
    THEN ThinkPath(st, current_text, stripped, ThinkBrace(stripped))
    ELSE IF StartsWith(stripped, <<LB>>) THEN JsonPath(st, current_text, stripped)
    ELSE IF In(<<LT>>, current_text)
    THEN TagPath(st, previous_text, current_text, delta_text)
    ELSE Step(st, Msg(Strip(delta_text), <<>>))

StreamingDispatch(st, previous_text, current_text, delta_text, stripped) ==
    IF StartsWith(stripped, OpenTag(THINK))
    THEN ThinkPath(st, current_text, stripped, ThinkBrace(stripped))
    ELSE IF StartsWith(stripped, <<LB>>) THEN JsonPath(st, current_text, stripped)
    ELSE IF In(<<LT>>, current_text)
    THEN TagPath(st, previous_text, current_text, delta_text)
    ELSE Step(st, Msg(delta_text, <<>>))

extract_tool_calls_streaming(st, previous_text, current_text, delta_text) ==
    StreamingDispatch(st, previous_text, current_text, delta_text, Strip(current_text))

---------------------------------------------------------------------------
(* The state machine.                                                      *)
(* A RooToolParser object and the three operations of the module that a    *)
(* host can drive: the streaming step, the batch extraction and the        *)
(* content sanitizer.  The host owns the cumulative text and hands the     *)
(* parser previous_text, current_text = previous_text + delta_text and     *)
(* delta_text at every step; it may call the parser again after a step     *)
(* that raised.                                                            *)

VARIABLES
    current_tool_id,              \* self.current_tool_id
    prev_tool_call_arr,           \* self.prev_tool_call_arr
    streamed_args_for_tool,       \* self.streamed_args_for_tool
    buffered_delta_text,          \* self.buffered_delta_text
    tool_call_start_token_array,  \* decoded fragments of "<tool_call>"
    tool_call_end_token_array,    \* decoded fragments of "</tool_call>"
    current_text,                 \* the host's cumulative text
    delta_text,                   \* the delta of the last streaming step
    out,                          \* what the last streaming step returned
    id_before,                    \* current_tool_id when the last step began
    arr_before,                   \* prev_tool_call_arr when the last step began
    args_before,                  \* streamed_args_for_tool when the last step began
    narration,                    \* all content returned so far, concatenated
    calls,                        \* all call records returned so far
    steps,                        \* streaming steps taken
    op,                           \* the last operation
    model_output,                 \* the argument of extract_tool_calls
    result,                       \* what extract_tool_calls returned
    content,                      \* the text handed to the sanitizer
    tool_name,                    \* the tag name handed to the sanitizer
    cleaned,                      \* the sanitizer's successive outputs
    own,                          \* deltas fed to this parser and what it returned
    peer,                         \* a second RooToolParser and its stream
    fed,                          \* the deltas handed to tool_call_delta_buffer
    released                      \* what tool_call_delta_buffer returned for them

parser == <<current_tool_id, prev_tool_call_arr, streamed_args_for_tool,
            buffered_delta_text, tool_call_start_token_array,
            tool_call_end_token_array>>
stream == <<current_text, delta_text, out, id_before, arr_before, args_before,
            narration, calls, steps>>
batch == <<model_output, result>>
sanitizer == <<content, tool_name, cleaned>>
pair == <<own, peer>>
buffer == <<fed, released>>
vars == <<parser, stream, batch, sanitizer, pair, buffer, op>>

\* the parser's streaming state as the record the step operators take
StateOf ==
    [id |-> current_tool_id, arr |-> prev_tool_call_arr,
     args |-> streamed_args_for_tool, buf |-> buffered_delta_text,
     start_array |-> tool_call_start_token_array,
     end_array |-> tool_call_end_token_array]

\* a step on the attributes of the other object
AttrsOfOther(self, other) == other

\* the attributes a step works on are those of its own object: they are
\* assigned to self in __init__ and only ever reached through self
Attrs(self, other) == self

(* Bounds *)
MaxSteps == 3
MaxPairSteps == 2
MaxParams == 2
MaxPieces == 3
MaxPasses == 2
MaxFeeds == 4

\* the tokenizers: "<tool_call>" and "</tool_call>" are single special tokens
\* of the Qwen2.5 vocabulary
Tokenizers ==
    { [start_array |-> <<tool_call_start_token>>, end_array |-> <<tool_call_end_token>>] }

X_CALL == <<LB>> \o QNAME \o <<COLON>> \o <<DQ, "x", DQ>> \o <<COMMA>> \o QARGS
          \o <<COLON, LB, RB, RB>>
Y_CALL == <<LB>> \o QNAME \o <<COLON>> \o <<DQ, "y", DQ>> \o <<COMMA>> \o QARGS
          \o <<COLON, LB>> \o <<DQ, "path", DQ, COLON, DQ, "hi", DQ>> \o <<RB, RB>>
NO_NAME == <<LB>> \o QARGS \o <<COLON>> \o QNAME \o <<RB>>
READ_FILE == ROO_TOOLS[2]
PATH_PARAM == <<LT, "path", GT, "hi", LT, SL, "path", GT>>
THINK_BLOCK == OpenTag(THINK) \o <<"hi">> \o CloseTag(THINK)
MARKERS == QNAME \o <<COLON>> \o QARGS \o <<RB>>
\* {"name":"x","arguments":{"a":"{"}} and {"name":"x","arguments":{"a":"}"}}
OPEN_BRACE_CALL == <<LB>> \o QNAME \o <<COLON, DQ, "x", DQ, COMMA>> \o QARGS
                   \o <<COLON, LB, DQ, "a", DQ, COLON, DQ, LB, DQ, RB, RB>>
CLOSE_BRACE_CALL == <<LB>> \o QNAME \o <<COLON, DQ, "x", DQ, COMMA>> \o QARGS
                    \o <<COLON, LB, DQ, "a", DQ, COLON, DQ, RB, DQ, RB, RB>>
\* {"name":"","arguments":{}}
EMPTY_NAME_CALL == <<LB>> \o QNAME \o <<COLON, DQ, DQ, COMMA>> \o QARGS
                   \o <<COLON, LB, RB, RB>>
\* {"name":"x","arguments":{"a":"\""}}: a string value that needs escaping
QUOTE_CALL == <<LB>> \o QNAME \o <<COLON, DQ, "x", DQ, COMMA>> \o QARGS
              \o <<COLON, LB, DQ, "a", DQ, COLON, DQ, BS, DQ, DQ, RB, RB>>
\* {"foo":1}
FOO_OBJECT == <<LB, DQ, "foo", DQ, COLON, "1", RB>>
\* {"name":"x"}
NAME_ONLY == <<LB>> \o QNAME \o <<COLON, DQ, "x", DQ, RB>>

\* {"name":"x","arguments":"<tools"}
FRAGMENT_CALL == <<LB>> \o QNAME \o <<COLON, DQ, "x", DQ, COMMA>> \o QARGS
                 \o <<COLON, DQ>> \o OpenPart(TOOLS) \o <<DQ, RB>>

\* deltas that split tags, known and unknown, and JSON objects into fragments
FragmentDeltas ==
    { <<"hi">>, <<SP>>, <<LT>>, <<SL>>, <<GT>>, <<"tool">>, <<"x">>,
      <<LB>>, QNAME \o <<COLON, DQ, "x", DQ, RB>>,
      THINK_BLOCK, FRAGMENT_CALL,
      OpenTag(ROO_TOOLS[1]) \o PATH_PARAM,
      OpenTag(READ_FILE) \o PATH_PARAM \o CloseTag(READ_FILE) }

\* the deltas a model may stream
Deltas ==
    { <<"hi">>, <<LT>>, <<"1">>,
      tool_call_end_token,
      tool_call_start_token \o X_CALL,
      tool_call_start_token \o QUOTE_CALL \o tool_call_end_token,
      OpenTag(TOOLS) \o NO_NAME \o CloseTag(TOOLS),
      OpenTag(READ_FILE),
      PATH_PARAM \o CloseTag(READ_FILE),
      Y_CALL,
      THINK_BLOCK }

\* the pieces batch texts are made of
BatchPieces ==
    { tool_call_start_token \o X_CALL \o tool_call_end_token,
      tool_call_start_token \o NO_NAME \o tool_call_end_token,
      tool_call_start_token \o <<"hi">> \o tool_call_end_token,
      tool_call_start_token \o EMPTY_NAME_CALL \o tool_call_end_token,
      OpenTag(TOOLS) \o Y_CALL \o CloseTag(TOOLS),
      OpenTag(READ_FILE) \o PATH_PARAM \o CloseTag(READ_FILE),
      Y_CALL,
      THINK_BLOCK,
      <<"hi">>, <<SP>>,
      MARKERS,
      tool_call_end_token }

\* the pieces sanitizer inputs are made of
CleanPieces ==
    { <<LT, "tool">>, <<LT, "tool", "s">>, <<"_call">>, <<GT>>, <<"hi">>, <<SP>>,
      OpenTag(READ_FILE), <<LT, SL, "tool">> }

\* all concatenations of at most k pieces of P
RECURSIVE Compose(_, _)
Compose(P, k) ==
    IF k = 0 THEN {<<>>}
    ELSE LET S == Compose(P, k - 1) IN S \cup { x \o p : x \in S, p \in P }

BatchTexts == Compose(BatchPieces, MaxPieces)
CleanTexts == Compose(CleanPieces, MaxPieces)
CleanNames == {TOOL_CALL, READ_FILE}

NoResult == Result(FALSE, <<>>, None)

\* RooToolParser.__init__
ParserInit ==
    /\ current_tool_id = -1
    /\ prev_tool_call_arr = <<>>
    /\ streamed_args_for_tool = <<>>
    /\ buffered_delta_text = <<>>
    /\ \E tk \in Tokenizers :
          /\ tool_call_start_token_array = tk.start_array
          /\ tool_call_end_token_array = tk.end_array

StreamIdle ==
    /\ current_text = <<>>
    /\ delta_text = <<>>
    /\ out = NoneOut
    /\ id_before = -1
    /\ arr_before = <<>>
    /\ args_before = <<>>
    /\ narration = <<>>
    /\ calls = <<>>
    /\ steps = 0

BatchIdle == model_output = <<>> /\ result = NoResult

\* a second parser, fresh from __init__ with the same tokenizer, and no step
\* of either stream logged
PairIdle ==
    /\ own = [deltas |-> <<>>, outs |-> <<>>]
    /\ peer = [st |-> StateOf, text |-> <<>>, deltas |-> <<>>, outs |-> <<>>]
BufferIdle == fed = <<>> /\ released = <<>>
SanitizerIdle == content = <<>> /\ tool_name = TOOL_CALL /\ cleaned = <<>>

\* one call of extract_tool_calls_streaming by the host
StreamStep(previous, delta) ==
    \E r \in {extract_tool_calls_streaming(StateOf, previous, previous \o delta, delta)} :
    /\ current_tool_id' = r.st.id
    /\ prev_tool_call_arr' = r.st.arr
    /\ streamed_args_for_tool' = r.st.args
    /\ buffered_delta_text' = r.st.buf
    /\ UNCHANGED <<tool_call_start_token_array, tool_call_end_token_array>>
    /\ current_text' = previous \o delta
    /\ delta_text' = delta
    /\ out' = r.out
    /\ id_before' = current_tool_id
    /\ arr_before' = prev_tool_call_arr
    /\ args_before' = streamed_args_for_tool
    /\ narration' = IF r.out.kind = "msg" /\ r.out.content # None
                    THEN narration \o r.out.content ELSE narration
    /\ calls' = calls \o r.out.tool_calls
    /\ steps' = steps + 1
    /\ UNCHANGED <<batch, sanitizer>>

\* the model streams one more delta
Stream ==
    /\ steps < MaxSteps
    /\ \E d \in Deltas : StreamStep(current_text, d)
    /\ op' = "stream"
    /\ UNCHANGED <<pair, buffer>>

\* the host calls again with the same cumulative text (an empty delta) after a
\* call was returned
Refeed ==
    /\ steps < MaxSteps
    /\ calls # <<>>
    /\ StreamStep(current_text, <<>>)
    /\ op' = "refeed"
    /\ UNCHANGED <<pair, buffer>>

\* the model streams one more fragment
Fragment ==
    /\ steps < MaxSteps
    /\ \E d \in FragmentDeltas : StreamStep(current_text, d)
    /\ op' = "stream"
    /\ UNCHANGED <<pair, buffer>>

Init == ParserInit /\ StreamIdle /\ BatchIdle /\ SanitizerIdle /\ PairIdle /\ BufferIdle /\ op = "init"
FragmentNext == Fragment
FragmentSpec == Init /\ [][FragmentNext]_vars
Next == Stream \/ Refeed
Spec == Init /\ [][Next]_vars

\* extract_tool_calls on a complete model output
Extract ==
    /\ op = "init"
    /\ result' = extract_tool_calls(model_output)
    /\ op' = "extract"
    /\ UNCHANGED <<parser, stream, model_output, sanitizer, pair, buffer>>

BatchInit ==
    /\ ParserInit /\ StreamIdle /\ SanitizerIdle /\ PairIdle /\ BufferIdle /\ op = "init"
    /\ model_output \in BatchTexts
    /\ result = NoResult
BatchNext == Extract
BatchSpec == BatchInit /\ [][BatchNext]_vars

\* texts in the tag-per-call syntax: a prefix, the opening tag of a Vocabulary
\* name, a body of <key>value</key> parameters, the closing tag or none (a
\* truncated output), and what follows
XmlPrefixes ==
    { <<>>, <<"hi">>, <<SP, "hi", SP>>, tool_call_end_token, CloseTag(ROO_TOOLS[2]) }
XmlTools == { ROO_TOOLS[1], ROO_TOOLS[2], ROO_TOOLS[3] }
XmlParams ==
    { <<LT, "path", GT, "hi", LT, SL, "path", GT>>,
      <<LT, "path", GT, SP, "hi", SP, LT, SL, "path", GT>>,
      <<LT, "content", GT, LSB, "1", RSB, LT, SL, "content", GT>>,
      <<LT, "content", GT, "1", LT, SL, "content", GT>> }
XmlSuffixes ==
    { <<>>, OpenTag(ROO_TOOLS[1]), OpenTag(ROO_TOOLS[3]),
      tool_call_start_token, tool_call_start_token \o X_CALL,
      OpenTag(ROO_TOOLS[6]) \o <<LT, "path", GT, "1", LT, SL, "path", GT>>
          \o CloseTag(ROO_TOOLS[6]) }
XmlTexts ==
    { n \o OpenTag(t) \o b \o c \o x :
        n \in XmlPrefixes, t \in XmlTools, b \in Compose(XmlParams, MaxParams),
        c \in UNION { {<<>>, CloseTag(u)} : u \in XmlTools }, x \in XmlSuffixes }

XmlInit ==
    /\ ParserInit /\ StreamIdle /\ SanitizerIdle /\ PairIdle /\ BufferIdle /\ op = "init"
    /\ model_output \in XmlTexts
    /\ result = NoResult
XmlSpec == XmlInit /\ [][BatchNext]_vars

\* texts made of JSON objects, calls or not, reasoning blocks and prose
ObjectPieces ==
    { X_CALL, Y_CALL, NO_NAME, NAME_ONLY, FOO_OBJECT, THINK_BLOCK, <<"hi">>, <<SP>> }
ObjectTexts == Compose(ObjectPieces, MaxPieces)

ObjectInit ==
    /\ ParserInit /\ StreamIdle /\ SanitizerIdle /\ PairIdle /\ BufferIdle /\ op = "init"
    /\ model_output \in ObjectTexts
    /\ result = NoResult
ObjectSpec == ObjectInit /\ [][BatchNext]_vars

\* clean_content_from_xml_tags, on the text and then on its own output
Clean ==
    /\ Len(cleaned) < MaxPasses
    /\ cleaned' = Append(cleaned,
                         clean_content_from_xml_tags(
                             IF cleaned = <<>> THEN content ELSE cleaned[Len(cleaned)],
                             tool_name))
    /\ op' = "clean"
    /\ UNCHANGED <<parser, stream, batch, content, tool_name, pair, buffer>>

CleanInit ==
    /\ ParserInit /\ StreamIdle /\ BatchIdle /\ PairIdle /\ BufferIdle /\ op = "init"
    /\ content \in CleanTexts
    /\ tool_name \in CleanNames
    /\ cleaned = <<>>
CleanNext == Clean
CleanSpec == CleanInit /\ [][CleanNext]_vars

\* the bare JSON texts a model may stream piece by piece
JsonTexts ==
    { X_CALL, Y_CALL, OPEN_BRACE_CALL, CLOSE_BRACE_CALL, NAME_ONLY, X_CALL \o <<"hi">> }

\* the model streams the next k lexemes of model_output
Chunk ==
    /\ Len(current_text) < Len(model_output)
    /\ \E k \in 1..(Len(model_output) - Len(current_text)) :
          StreamStep(current_text,
                     SubSeq(model_output, Len(current_text) + 1, Len(current_text) + k))
    /\ op' = "stream"
    /\ UNCHANGED <<pair, buffer>>

JsonInit ==
    /\ ParserInit /\ StreamIdle /\ SanitizerIdle /\ PairIdle /\ BufferIdle /\ op = "init"
    /\ model_output \in JsonTexts
    /\ result = NoResult
JsonNext == Chunk
JsonSpec == JsonInit /\ [][JsonNext]_vars

\* tokenizers that decode the two sentinels into several fragments
FragmentTokenizers ==
    { [start_array |-> << <<LT>>, <<"tool">>, <<"_call">>, <<GT>> >>,
       end_array |-> << <<LT, SL>>, <<"tool">>, <<"_call">>, <<GT>> >>],
      [start_array |-> << <<LT, "tool">>, <<"_call", GT>> >>,
       end_array |-> << <<LT, SL, "tool">>, <<"_call", GT>> >>] }

\* the deltas handed to the buffer: fragments of the sentinels, whole
\* sentinels, prose and the empty delta
BufferDeltas ==
    { <<LT>>, <<LT, SL>>, <<"tool">>, <<"_call">>, <<GT>>, <<LT, "tool">>,
      <<"_call", GT>>, tool_call_start_token, <<"hi">>, <<>> }

\* one call of tool_call_delta_buffer
Buffer ==
    /\ Len(fed) < MaxFeeds
    /\ \E d \in BufferDeltas :
          \E b \in {tool_call_delta_buffer(StateOf, d)} :
             /\ buffered_delta_text' = b.buf
             /\ fed' = Append(fed, d)
             /\ released' = Append(released, b.ret)
    /\ op' = "buffer"
    /\ UNCHANGED <<current_tool_id, prev_tool_call_arr, streamed_args_for_tool,
                   tool_call_start_token_array, tool_call_end_token_array>>
    /\ UNCHANGED <<stream, batch, sanitizer, pair>>

BufferInit ==
    /\ current_tool_id = -1
    /\ prev_tool_call_arr = <<>>
    /\ streamed_args_for_tool = <<>>
    /\ buffered_delta_text = <<>>
    /\ \E tk \in Tokenizers \cup FragmentTokenizers :
          /\ tool_call_start_token_array = tk.start_array
          /\ tool_call_end_token_array = tk.end_array
    /\ StreamIdle /\ BatchIdle /\ SanitizerIdle /\ PairIdle /\ BufferIdle /\ op = "init"
BufferNext == Buffer
BufferSpec == BufferInit /\ [][BufferNext]_vars

\* the deltas of two streams served at the same time
PairDeltas ==
    { <<"hi">>,
      tool_call_start_token \o X_CALL,
      tool_call_end_token,
      Y_CALL,
      OpenTag(TOOLS) \o NO_NAME \o CloseTag(TOOLS) }

\* a step of this parser's stream
StepOwn ==
    /\ Len(own.deltas) < MaxPairSteps
    /\ \E d \in PairDeltas :
          /\ StreamStep(current_text, d)
          /\ own' = [deltas |-> Append(own.deltas, d), outs |-> Append(own.outs, out')]
    /\ op' = "stream"
    /\ UNCHANGED <<peer, buffer>>

\* a step of the second parser's stream
StepPeer ==
    /\ Len(peer.deltas) < MaxPairSteps
    /\ \E d \in PairDeltas :
          \E r \in {extract_tool_calls_streaming(Attrs(peer.st, StateOf), peer.text,
                                                 peer.text \o d, d)} :
             peer' = [st |-> r.st, text |-> peer.text \o d,
                      deltas |-> Append(peer.deltas, d), outs |-> Append(peer.outs, r.out)]
    /\ op' = "peer"
    /\ UNCHANGED <<parser, stream, batch, sanitizer, own, buffer>>

PairNext == StepOwn \/ StepPeer
PairSpec == Init /\ [][PairNext]_vars

---------------------------------------------------------------------------
(* Vocabulary of the claims *)

\* s holds a partial or complete tag of a recognized name: <name or </name
\* (which <name> and </name> contain) for a Vocabulary name, tool_call or tools
TagFragmentIn(s) ==
    /\ s # None
    /\ \E i \in 1..Len(CandidateNames) :
          In(OpenPart(CandidateNames[i]), s) \/ In(ClosePart(CandidateNames[i]), s)

\* the text matches none of the four call syntaxes of the Format Detector
PureNarration(text) ==
    /\ ~has_hermes_format(text)
    /\ ~has_tools_tag_format(text)
    /\ ~has_direct_json_format(text)
    /\ ~has_roo_xml_format(text)

\* the text matches some call syntax
SomeFormat(text) == ~PureNarration(text)

\* the interiors of the complete open...close envelopes of s, in text order
RECURSIVE ClosedEnvelopes(_, _, _)
ClosedEnvelopes(s, open, close) ==
    IF Find(s, open) < 0 \/ Find(From(s, Find(s, open) + Len(open)), close) < 0 THEN <<>>
    ELSE <<Slice(From(s, Find(s, open) + Len(open)), 0,
                 Find(From(s, Find(s, open) + Len(open)), close))>>
         \o ClosedEnvelopes(From(From(s, Find(s, open) + Len(open)),
                                 Find(From(s, Find(s, open) + Len(open)), close)
                                 + Len(close)),
                            open, close)

\* the calls of the payloads that are JSON objects with name and arguments
IsValid(r) == r.ok /\ IsCallPayload(r.v)
CallOf(r) == IF IsValid(r) THEN <<MakeToolCall(r.v)>> ELSE <<>>
RECURSIVE ValidCalls(_)
ValidCalls(payloads) ==
    IF payloads = <<>> THEN <<>>
    ELSE CallOf(json_loads(Head(payloads))) \o ValidCalls(Tail(payloads))

\* the calls of the complete <tool_call> envelopes with a valid payload
EnvelopeCalls(text) ==
    ValidCalls(ClosedEnvelopes(text, tool_call_start_token, tool_call_end_token))

\* the record a streaming step returns for a batch call, with its index
Indexed(call, index) ==
    [index |-> index, name |-> call.name, arguments |-> call.arguments]

\* a payload that is no JSON, no JSON object, or an object without "name"
Malformed(r) == ~r.ok \/ r.v.t # "obj" \/ ~HasKey(r.v, <<"name">>)
AllMalformed(payloads) ==
    /\ payloads # <<>>
    /\ \A i \in 1..Len(payloads) : Malformed(json_loads(payloads[i]))

\* the text is a balanced bare JSON text: stripped, it starts with "{" and its
\* braces close
BalancedJson(text) == StartsWith(Strip(text), <<LB>>) /\ json_complete(Strip(text))

\* the complete <tool_call> and <tools> envelopes of the text
Envelopes(text) ==
    ClosedEnvelopes(text, tool_call_start_token, tool_call_end_token)
    \o ClosedEnvelopes(text, OpenTag(TOOLS), CloseTag(TOOLS))

\* the text holds complete envelopes, all with a malformed payload, or is a
\* balanced bare JSON text with a malformed payload
MalformedPayload(text) ==
    \/ AllMalformed(Envelopes(text))
    \/ (BalancedJson(text) /\ Malformed(json_loads(Strip(text))))

\* the last streaming step left the three bookkeeping fields as they were
StateUnchanged ==
    /\ current_tool_id = id_before
    /\ prev_tool_call_arr = arr_before
    /\ streamed_args_for_tool = args_before

\* the records a streaming step returns for the calls of a batch result, the
\* first with index base + 1
IndexedFrom(batch_calls, base) ==
    [i \in 1..Len(batch_calls) |-> Indexed(batch_calls[i], base + i)]

\* the arguments value of a payload text, if it is an object that has one
ArgumentsOf(r) ==
    IF r.ok /\ r.v.t = "obj" /\ HasKey(r.v, <<"arguments">>)
    THEN {Get(r.v, <<"arguments">>)} ELSE {}

\* the payloads after a <tool_call>, up to the next </tool_call> or, for the
\* last one, up to the end of the text
OpenEnvelopes(text) ==
    FindAllEnvelopes(text, tool_call_start_token, tool_call_end_token)

\* the arguments values of the JSON payloads of a text: of its envelopes, of
\* the text as bare JSON and of the JSON after a <think> block
ArgumentValues(text) ==
    UNION { ArgumentsOf(json_loads(Envelopes(text)[i])) : i \in 1..Len(Envelopes(text)) }
    \cup UNION { ArgumentsOf(json_loads(OpenEnvelopes(text)[i])) :
                    i \in 1..Len(OpenEnvelopes(text)) }
    \cup ArgumentsOf(json_loads(Strip(text)))
    \cup (IF ThinkBrace(Strip(text)) < 0 THEN {}
          ELSE ArgumentsOf(json_loads(From(Strip(text), ThinkBrace(Strip(text))))))

\* a parser as __init__ leaves it, with the tokenizer of this run
Fresh ==
    [id |-> -1, arr |-> <<>>, args |-> <<>>, buf |-> <<>>,
     start_array |-> tool_call_start_token_array,
     end_array |-> tool_call_end_token_array]

\* a stream run alone: the deltas are fed one by one to a parser that starts
\* in state st with cumulative text previous; outs collects what it returned
RECURSIVE AloneFrom(_, _, _, _)
AloneStep(r, previous, deltas, outs) ==
    AloneFrom(r.st, previous \o Head(deltas), Tail(deltas), Append(outs, r.out))
AloneFrom(st, previous, deltas, outs) ==
    IF deltas = <<>> THEN [st |-> st, outs |-> outs]
    ELSE AloneStep(extract_tool_calls_streaming(st, previous, previous \o Head(deltas),
                                                Head(deltas)),
                   previous, deltas, outs)
Alone(deltas) == AloneFrom(Fresh, <<>>, deltas, <<>>)

\* s is a run of complete <tool_call> envelopes, each with a JSON object with
\* name and arguments inside, and nothing else
RECURSIVE EnvelopeRun(_)
EnvelopeRun(s) ==
    \/ s = <<>>
    \/ /\ StartsWith(s, tool_call_start_token)
       /\ Find(s, tool_call_end_token) >= 0
       /\ IsValid(json_loads(Slice(s, Len(tool_call_start_token),
                                   Find(s, tool_call_end_token))))
       /\ EnvelopeRun(From(s, Find(s, tool_call_end_token) + Len(tool_call_end_token)))

\* the text is some N without start token followed by one or more envelopes
TaggedForm(text) ==
    /\ Find(text, tool_call_start_token) >= 0
    /\ EnvelopeRun(From(text, Find(text, tool_call_start_token)))

\* the N of such a text
NarrationOf(text) == Slice(text, 0, Find(text, tool_call_start_token))

\* the Vocabulary index of the opening tag that comes first in the text
TextualTool(text) ==
    CHOOSE i \in 1..Len(ROO_TOOLS) :
        /\ In(OpenTag(ROO_TOOLS[i]), text)
        /\ \A j \in 1..Len(ROO_TOOLS) :
              In(OpenTag(ROO_TOOLS[j]), text)
                  => Find(text, OpenTag(ROO_TOOLS[i])) <= Find(text, OpenTag(ROO_TOOLS[j]))

\* the text before that opening tag, and the text after it
BeforeTag(text, tool) == Slice(text, 0, Find(text, OpenTag(tool)))
AfterTag(text, tool) == From(text, Find(text, OpenTag(tool)) + Len(OpenTag(tool)))

EndsWith(s, p) == Len(p) <= Len(s) /\ SubSeq(s, Len(s) - Len(p) + 1, Len(s)) = p

\* a body read as a flat sequence of <key>value</key> pairs, blanks between
\* them allowed and no "<" inside a value: [ok, ps], ps the [k, v] pairs with
\* the raw values
NoPairs == [ok |-> FALSE, ps |-> <<>>]
RECURSIVE FlatPairs(_, _)
FlatPairAt(s, acc, g) ==
    IF g < 2 \/ \E i \in 2..g : ~IsWord(s[i]) THEN NoPairs
    ELSE IF Find(From(s, g + 1), <<LT>>) < 0
            \/ ~StartsWith(From(s, g + 1 + Find(From(s, g + 1), <<LT>>)),
                           CloseTag(SubSeq(s, 2, g)))
    THEN NoPairs
    ELSE FlatPairs(From(s, g + 1 + Find(From(s, g + 1), <<LT>>) + g + 2),
                   Append(acc, [k |-> SubSeq(s, 2, g),
                                v |-> Slice(s, g + 1, g + 1 + Find(From(s, g + 1), <<LT>>))]))
FlatPairs(s0, acc) ==
    IF LStrip(s0) = <<>> THEN [ok |-> TRUE, ps |-> acc]
    ELSE IF Head(LStrip(s0)) # LT THEN NoPairs
    ELSE FlatPairAt(LStrip(s0), acc, Find(LStrip(s0), <<GT>>))

\* the text is N <tool> body </tool>: tool is the Vocabulary name whose opening
\* tag comes first, the text ends with its closing tag and the body between
\* the two is a flat sequence of pairs with distinct keys
BodyOf(text, tool) ==
    Slice(AfterTag(text, tool), 0, Len(AfterTag(text, tool)) - Len(CloseTag(tool)))
DistinctKeys(ps) == \A i, j \in 1..Len(ps) : ps[i].k = ps[j].k => i = j
TagForm(text) ==
    /\ has_roo_xml_format(text)
    /\ EndsWith(AfterTag(text, ROO_TOOLS[TextualTool(text)]),
                CloseTag(ROO_TOOLS[TextualTool(text)]))
    /\ FlatPairs(BodyOf(text, ROO_TOOLS[TextualTool(text)]), <<>>).ok
    /\ DistinctKeys(FlatPairs(BodyOf(text, ROO_TOOLS[TextualTool(text)]), <<>>).ps)

\* the arguments map of the pairs: each key with its trimmed value, a str
TrimmedMap(ps) == JObj([i \in 1..Len(ps) |-> [k |-> ps[i].k, v |-> JStr(Strip(ps[i].v))]])

\* what the claim expects of a text in that form
TagCallExpected(text, tool, res) ==
    /\ res.tools_called
    /\ Len(res.tool_calls) = 1
    /\ res.tool_calls[1].name = tool
    /\ json_loads(res.tool_calls[1].arguments)
          = JOk(TrimmedMap(FlatPairs(BodyOf(text, tool), <<>>).ps), <<>>)
    /\ res.content = NoneIfEmpty(Strip(BeforeTag(text, tool)))

\* no value of the pairs looks like JSON, no key is a Vocabulary name
PlainPairs(ps) ==
    \A i \in 1..Len(ps) :
        /\ ~StartsWith(Strip(ps[i].v), <<LB>>)
        /\ ~StartsWith(Strip(ps[i].v), <<LSB>>)
        /\ \A j \in 1..Len(ROO_TOOLS) : ps[i].k # ROO_TOOLS[j]

---------------------------------------------------------------------------
(* Claims *)

\* C1: exactly-once emission.  Over any sequence of streaming steps on a
\* growing cumulative text at most one step returns a call; a call is only
\* returned by a step that starts with current_tool_id < 0; and calling again
\* with the same cumulative text after a call was returned returns no call.
C1_ExactlyOnce ==
    /\ Len(calls) <= 1
    /\ (out.tool_calls # <<>> => id_before < 0)
    /\ (op = "refeed" => out.tool_calls = <<>>)

\* C2: streaming monotonicity.  When the cumulative text matches none of the
\* four call syntaxes, the content fragments returned so far, concatenated in
\* order, equal the cumulative text.
C2_Monotonic ==
    (steps > 0 /\ PureNarration(current_text)) => narration = current_text

\* C3: no content returned by a streaming step, and so no concatenation of the
\* content returned, holds a partial or complete tag of a recognized name.
C3_NoTagInNarration ==
    /\ ~TagFragmentIn(narration)
    /\ (out.kind = "msg" => ~TagFragmentIn(out.content))

\* C4: batch format priority.  extract_tool_calls returns what the first
\* matching extractor returns, in the order <tool_call> envelope, <tools>
\* envelope with both key markers, bare JSON, vocabulary tag; a text with both
\* a <tool_call> envelope and a vocabulary opening tag gets the envelope
\* extractor's result.
C4_BatchPriority ==
    op = "extract" =>
        /\ In(tool_call_start_token, model_output)
              => result = extract_hermes_tool_calls(model_output)
        /\ (~has_hermes_format(model_output) /\ has_tools_tag_format(model_output))
              => result = extract_tools_tag_format(model_output)
        /\ (/\ ~has_hermes_format(model_output)
            /\ ~has_tools_tag_format(model_output)
            /\ has_direct_json_format(model_output))
              => result = extract_direct_json(model_output)
        /\ (/\ ~has_hermes_format(model_output)
            /\ ~has_tools_tag_format(model_output)
            /\ ~has_direct_json_format(model_output)
            /\ has_roo_xml_format(model_output))
              => result = extract_roo_xml_tool_calls(model_output)

\* a text with an envelope and a vocabulary tag was extracted, the envelope's
\* call was returned and the tag extractor would have returned another result
C4_Witness ==
    /\ op = "extract"
    /\ In(tool_call_start_token, model_output)
    /\ has_roo_xml_format(model_output)
    /\ result.tools_called
    /\ result.tool_calls = EnvelopeCalls(model_output)
    /\ result.tool_calls # <<>>
    /\ result # extract_roo_xml_tool_calls(model_output)

\* C5: streaming format priority.  A step that starts with no call emitted and
\* whose cumulative text holds both a complete <tool_call> envelope with a
\* valid payload and a vocabulary opening tag returns the envelope's call.
C5_StreamingPriority ==
    (/\ op = "stream"
     /\ id_before < 0
     /\ Len(calls) = Len(out.tool_calls)
     /\ EnvelopeCalls(current_text) # <<>>
     /\ has_roo_xml_format(current_text))
        => out.tool_calls = <<Indexed(EnvelopeCalls(current_text)[1], 0)>>

\* C6: tools_called is true exactly when the call list is not empty.
C6_FlagConsistency ==
    op = "extract" => (result.tools_called <=> Len(result.tool_calls) > 0)

\* C7: the content of a batch result, if present, holds no partial or
\* complete tag of a Vocabulary name, of tool_call or of tools.
C7_CleanNarration ==
    op = "extract" => ~TagFragmentIn(result.content)

\* C8: the sanitizer is idempotent: applied to its own output it returns that
\* output (None is a fixed point).
C8_Idempotent ==
    Len(cleaned) >= 2 => cleaned[2] = cleaned[1]

\* C9: fallback on parse failure.  When the text matches a call syntax and no
\* call could be parsed from it, the batch result has tools_called false and
\* the whole text, verbatim, as content.
C9_Fallback ==
    (op = "extract" /\ SomeFormat(model_output) /\ result.tool_calls = <<>>)
        => (~result.tools_called /\ result.content = model_output)

\* C10: per-call recovery.  Of several <tool_call> (or <tools>) envelopes the
\* ones whose payload is no call are skipped one by one, and every envelope
\* whose payload is a JSON object with name and arguments yields its call, in
\* text order.
C10_PerCallRecovery ==
    op = "extract" =>
        /\ has_hermes_format(model_output)
              => result.tool_calls =
                    ValidCalls(FindAllEnvelopes(model_output, tool_call_start_token,
                                                tool_call_end_token))
        /\ (~has_hermes_format(model_output) /\ has_tools_tag_format(model_output))
              => result.tool_calls =
                    ValidCalls(FindAllEnvelopes(model_output, OpenTag(TOOLS),
                                                CloseTag(TOOLS)))

\* C11: a streaming step never fails and never half-updates the state.  A
\* step on a text whose complete envelopes, or balanced bare JSON, have a
\* malformed payload raises nothing, returns None and leaves current_tool_id,
\* prev_tool_call_arr and streamed_args_for_tool unchanged.
C11_NoHalfUpdate ==
    /\ out.kind # "raise"
    /\ (op = "stream" /\ MalformedPayload(current_text))
          => (out.kind = "none" /\ StateUnchanged)

\* C12: bookkeeping.  In every state reachable by streaming steps
\* current_tool_id = len(prev_tool_call_arr) - 1 = len(streamed_args_for_tool) - 1;
\* current_tool_id counts the calls returned (it is incremented once per
\* returned call and never otherwise); and the index of a returned call record
\* is the new current_tool_id.
C12_Bookkeeping ==
    /\ current_tool_id = Len(prev_tool_call_arr) - 1
    /\ current_tool_id = Len(streamed_args_for_tool) - 1
    /\ current_tool_id = Len(calls) - 1
    /\ \A i \in 1..Len(out.tool_calls) : out.tool_calls[i].index = current_tool_id

\* C13: a text with neither "<" nor "{" is returned verbatim by batch
\* extraction: tools_called false, no calls, content equal to the text.
C13_Verbatim ==
    (op = "extract" /\ ~In(<<LT>>, model_output) /\ ~In(<<LB>>, model_output))
        => result = Result(FALSE, <<>>, model_output)

\* a text without "<" and "{" that holds both key markers and blanks was
\* extracted and came back as content
C13_Witness ==
    /\ op = "extract"
    /\ ~In(<<LT>>, model_output) /\ ~In(<<LB>>, model_output)
    /\ In(QNAME, model_output) /\ In(QARGS, model_output)
    /\ In(<<SP>>, model_output)
    /\ ~result.tools_called
    /\ result.content = model_output

\* C14: streaming a bare JSON call.  However the object {"name": n,
\* "arguments": a} is cut into deltas, every step before the last returns
\* None and the step that completes the object returns exactly one call, with
\* name n and arguments a, and no content.
C14_BareJsonStream ==
    (op = "stream" /\ IsValid(json_loads(model_output))) =>
        IF current_text = model_output
        THEN out = Msg(None, <<Indexed(CallOf(json_loads(model_output))[1], 0)>>)
        ELSE out = NoneOut

\* C15: streaming bare JSON delegates to the bare-JSON extractor.  A step that
\* starts with no call recorded and whose stripped cumulative text begins with
\* "{" and is brace-balanced returns exactly the calls _extract_direct_json
\* returns for that text: a call only for an object with both "name" and
\* "arguments", otherwise none.
C15_DelegatesToBatch ==
    (op = "stream" /\ id_before < 0 /\ BalancedJson(current_text)) =>
        out.tool_calls = IndexedFrom(extract_direct_json(current_text).tool_calls, id_before)

\* C16: no empty response in streaming.  After any sequence of deltas whose
\* cumulative text is not empty and not only whitespace, some step has
\* returned content or a call.
C16_NoEmptyResponse ==
    (steps > 0 /\ Strip(current_text) # <<>>) => (narration # <<>> \/ calls # <<>>)

\* C17: call records are well formed.  Every call returned by
\* extract_tool_calls or by a streaming step has a non-empty name and an
\* arguments string that parses as JSON.
C17_WellFormed ==
    /\ \A i \in 1..Len(result.tool_calls) :
          /\ result.tool_calls[i].name # <<>>
          /\ json_loads(result.tool_calls[i].arguments).ok
    /\ \A i \in 1..Len(calls) :
          /\ calls[i].name # <<>>
          /\ json_loads(calls[i].arguments).ok

C20_TaggedJson ==
    (op = "extract" /\ TaggedForm(model_output)) =>
        /\ result.tools_called
        /\ result.tool_calls = EnvelopeCalls(model_output)
        /\ Len(result.tool_calls) = Len(ClosedEnvelopes(model_output, tool_call_start_token,
                                                        tool_call_end_token))
        /\ result.content = clean_content_from_xml_tags(NarrationOf(model_output), TOOL_CALL)
        /\ Strip(NarrationOf(model_output)) = <<>> => result.content = None

\* a text with narration and two envelopes was extracted: two calls and a
\* content came back
C20_Witness ==
    /\ op = "extract"
    /\ TaggedForm(model_output)
    /\ Strip(NarrationOf(model_output)) # <<>>
    /\ Len(result.tool_calls) = 2
    /\ result.tool_calls[1] # result.tool_calls[2]
    /\ result.content # None


C22_NotACall ==
    (/\ op = "extract"
     /\ StartsWith(model_output, <<LB>>)
     /\ ~In(<<LT>>, model_output)
     /\ ~IsValid(json_loads(Strip(model_output))))
        => result = Result(FALSE, <<>>, model_output)

\* a JSON object that holds both key markers but not both keys, followed by a
\* blank, was extracted and came back as content
C22_Witness ==
    /\ op = "extract"
    /\ StartsWith(model_output, <<LB>>)
    /\ json_loads(Strip(model_output)).ok
    /\ ~IsValid(json_loads(Strip(model_output)))
    /\ has_direct_json_format(model_output)
    /\ model_output # Strip(model_output)
    /\ ~result.tools_called
    /\ result.content = model_output

\* the Tag-per-call extractor is the one extract_tool_calls selects
TagPerCallSelected(text) ==
    /\ has_roo_xml_format(text)
    /\ ~has_hermes_format(text)
    /\ ~has_tools_tag_format(text)
    /\ ~has_direct_json_format(text)

\* the first index, in the declared order, whose opening tag is in the text
DeclaredFirst(text) ==
    CHOOSE i \in 1..Len(ROO_TOOLS) :
        /\ In(OpenTag(ROO_TOOLS[i]), text)
        /\ \A j \in 1..(i - 1) : ~In(OpenTag(ROO_TOOLS[j]), text)

\* res holds one call for the tool, with the arguments of the body that runs
\* from the opening tag to the end of the text
UnclosedCall(text, tool, res) ==
    /\ res.tools_called
    /\ Len(res.tool_calls) = 1
    /\ res.tool_calls[1].name = tool
    /\ res.tool_calls
          = extract_roo_xml_tool_calls(text \o CloseTag(tool)).tool_calls

\* the text after the first <tool_call> is the one payload of the result
UnclosedEnvelope(text, res) ==
    res.tool_calls
        = CallOf(json_loads(From(text, Find(text, tool_call_start_token)
                                           + Len(tool_call_start_token))))

\* C23: unterminated input is tolerated in batch.  For every Vocabulary name
\* whose opening tag is in the text and whose closing tag is not,
\* extract_tool_calls returns one call for that name whose body is everything
\* from the opening tag to the end of the text; and when the text holds
\* <tool_call> and no </tool_call>, the text after <tool_call> is parsed as
\* one payload.
C23_Unterminated ==
    op = "extract" =>
        /\ \A i \in 1..Len(ROO_TOOLS) :
              (In(OpenTag(ROO_TOOLS[i]), model_output)
               /\ ~In(CloseTag(ROO_TOOLS[i]), model_output))
                  => UnclosedCall(model_output, ROO_TOOLS[i], result)
        /\ (In(tool_call_start_token, model_output)
             /\ ~In(tool_call_end_token, model_output))
                => UnclosedEnvelope(model_output, result)

\* C23 (amended): the same for the name the Tag-per-call extractor works on,
\* the first of the declared order whose opening tag is in the text, when
\* that extractor is the one selected.
C23_UnterminatedSelected ==
    op = "extract" =>
        /\ (TagPerCallSelected(model_output)
             /\ ~In(CloseTag(ROO_TOOLS[DeclaredFirst(model_output)]), model_output))
                => UnclosedCall(model_output, ROO_TOOLS[DeclaredFirst(model_output)], result)
        /\ (In(tool_call_start_token, model_output)
             /\ ~In(tool_call_end_token, model_output))
                => UnclosedEnvelope(model_output, result)

\* an unclosed tag with two parameters after it was extracted into a call
\* with both arguments
C23_Witness ==
    /\ op = "extract"
    /\ TagPerCallSelected(model_output)
    /\ \A i \in 1..Len(ROO_TOOLS) : ~In(CloseTag(ROO_TOOLS[i]), model_output)
    /\ result.tools_called
    /\ Len(result.tool_calls) = 1
    /\ Len(json_loads(result.tool_calls[1].arguments).v.m) = 2

\* C24: the Tag-per-call extractor returns exactly one call, chosen by
\* Vocabulary order.  For a text with the opening tag of one or more
\* Vocabulary names the result holds one call, named after the first name of
\* the declared order whose opening tag is in the text, whichever tag comes
\* first in the text.
C24_VocabularyOrder ==
    (op = "extract" /\ TagPerCallSelected(model_output)) =>
        /\ result.tools_called
        /\ Len(result.tool_calls) = 1
        /\ result.tool_calls[1].name = ROO_TOOLS[DeclaredFirst(model_output)]

\* two Vocabulary tags, the later of the declared order first in the text:
\* the call is the earlier one of the declared order
C24_Witness ==
    /\ op = "extract"
    /\ TagPerCallSelected(model_output)
    /\ TextualTool(model_output) # DeclaredFirst(model_output)
    /\ Len(result.tool_calls) = 1
    /\ result.tool_calls[1].name = ROO_TOOLS[DeclaredFirst(model_output)]
    /\ result.tool_calls[1].name # ROO_TOOLS[TextualTool(model_output)]

\* the text, blanks around it apart, is a reasoning block followed by a JSON
\* object with name and arguments; the block, and the payload after it
ReasoningBlock(text) == Slice(Strip(text), 0, Min(ThinkEnds(Strip(text))))
AfterReasoning(text) == Strip(From(Strip(text), Min(ThinkEnds(Strip(text)))))
ReasonedCall(text) ==
    /\ StartsWith(Strip(text), OpenTag(THINK))
    /\ ThinkEnds(Strip(text)) # {}
    /\ StartsWith(AfterReasoning(text), <<LB>>)
    /\ IsValid(json_loads(AfterReasoning(text)))

\* C26: the reasoning block is kept raw as narration.  For a text that is
\* classified as Bare-JSON because a <think>...</think> block is followed by a
\* JSON object with name and arguments, extract_tool_calls returns that call
\* with the block, delimiters included, as content; for a JSON call without a
\* block the content is None.
C26_ReasoningKept ==
    (op = "extract" /\ ~has_hermes_format(model_output)
                    /\ ~has_tools_tag_format(model_output)) =>
        /\ ReasonedCall(model_output)
              => /\ has_direct_json_format(model_output)
                 /\ result = Result(TRUE, CallOf(json_loads(AfterReasoning(model_output))),
                                    ReasoningBlock(model_output))
        /\ (StartsWith(Strip(model_output), <<LB>>)
             /\ IsValid(json_loads(Strip(model_output))))
              => result = Result(TRUE, CallOf(json_loads(Strip(model_output))), None)

\* the stripped text begins with <think>, and a closed reasoning block is
\* followed by a "{" from which the braces balance and the text parses as a
\* JSON object with a name
ReasonedJsonCall(text) ==
    /\ StartsWith(Strip(text), OpenTag(THINK))
    /\ ThinkBraces(Strip(text)) # {}
    /\ \E b \in ThinkBraces(Strip(text)) :
          /\ json_complete(From(Strip(text), b))
          /\ json_loads(From(Strip(text), b)).ok
          /\ json_loads(From(Strip(text), b)).v.t = "obj"
          /\ HasKey(json_loads(From(Strip(text), b)).v, <<"name">>)

\* C25: only the reasoning-block path returns narration and a call together.
\* A streaming step whose message carries both content and a call happens
\* only on a cumulative text whose stripped form begins with <think> and
\* holds a closed reasoning block followed by a balanced JSON call; every
\* other message carries content only or calls only.
C25_TogetherOnlyReasoning ==
    (op \in {"stream", "refeed"} /\ out.kind = "msg"
       /\ out.content # None /\ out.tool_calls # <<>>)
        => ReasonedJsonCall(current_text)

\* a step on a reasoning block followed by a JSON call returned the block and
\* the call in one message
C25_Witness ==
    /\ op = "stream"
    /\ out.kind = "msg"
    /\ out.content = THINK_BLOCK
    /\ Len(out.tool_calls) = 1
    /\ ReasonedJsonCall(current_text)

\* the text from its last "<" on
LastFragment(text) == From(text, RFind(text, <<LT>>))

\* the text ends in a bare "<", or in a "<"-fragment without ">" that is a
\* prefix of, or has as a prefix, <name or </name of a Vocabulary name,
\* tool_call or tools
AmbiguousEnd(text) ==
    /\ In(<<LT>>, text)
    /\ \/ text[Len(text)] = LT
       \/ /\ ~In(<<GT>>, LastFragment(text))
          /\ \E i \in 1..Len(CandidateNames) :
                \E tag \in {OpenPart(CandidateNames[i]), ClosePart(CandidateNames[i])} :
                    \/ StartsWith(tag, LastFragment(text))
                    \/ StartsWith(LastFragment(text), tag)

NoNarration(o) == o.kind # "msg" \/ o.content = None

\* C27: ambiguous tag prefixes are suppressed, never guessed.  At every
\* streaming step whose cumulative text ends in a bare "<" or in such a
\* fragment, _is_accumulating_xml_tag reports accumulating and the step
\* returns no content.
C27_Suppressed ==
    (op = "stream" /\ AmbiguousEnd(current_text)) =>
        /\ is_accumulating_xml_tag(current_text)
        /\ NoNarration(out)

\* C27 (amended): the same for a cumulative text whose stripped form does not
\* begin with <think>.
C27_SuppressedOutsideReasoning ==
    (op = "stream" /\ AmbiguousEnd(current_text)
       /\ ~StartsWith(Strip(current_text), OpenTag(THINK))) =>
        /\ is_accumulating_xml_tag(current_text)
        /\ NoNarration(out)

\* "<", "/" and "tool" were streamed: the text ends in a partial closing tag
\* and the step returned nothing
C27_Witness ==
    /\ op = "stream"
    /\ AmbiguousEnd(current_text)
    /\ LastFragment(current_text) = <<LT, SL, "tool">>
    /\ out = NoneOut

\* C28: leading-brace suppression.  At every streaming step whose stripped
\* cumulative text begins with "{" no content is returned; the step returns
\* nothing while the "name" marker is absent or the braces are unbalanced, and
\* otherwise returns at most one call.
C28_LeadingBrace ==
    (op = "stream" /\ StartsWith(Strip(current_text), <<LB>>)) =>
        /\ out.kind # "raise"
        /\ NoNarration(out)
        /\ Len(out.tool_calls) <= 1
        /\ (~In(QNAME, Strip(current_text)) \/ ~json_complete(Strip(current_text)))
              => out = NoneOut

\* two "{" were suppressed for want of the marker, and the marker then came
\* with one "}" only: the step returned nothing
C28_Witness ==
    /\ op = "stream"
    /\ steps = 3
    /\ StartsWith(current_text, <<LB, LB>>)
    /\ In(QNAME, current_text)
    /\ ~json_complete(Strip(current_text))
    /\ narration = <<>>
    /\ out = NoneOut

\* C29: conservative suppression of unknown tags.  At every streaming step
\* whose cumulative text does not begin with "{" or <think>, holds a "<"
\* immediately followed by a letter or an underscore, and from which no
\* complete format yields a call, the step returns nothing, also when
\* _is_accumulating_xml_tag reports no match.
C29_UnknownTags ==
    (/\ op = "stream"
     /\ ~StartsWith(Strip(current_text), <<LB>>)
     /\ ~StartsWith(Strip(current_text), OpenTag(THINK))
     /\ LtThenLetter(current_text)
     /\ out.tool_calls = <<>>)
        => out = NoneOut

\* C30: plain pass-through.  Every streaming step whose cumulative text holds
\* no "<" and whose stripped form does not begin with "{" returns a message
\* whose content is the delta, unchanged, and no call, and leaves every field
\* of the streaming state as it was.
C30_PassThrough ==
    [][(/\ op' = "stream"
        /\ ~In(<<LT>>, current_text')
        /\ ~StartsWith(Strip(current_text'), <<LB>>))
          => /\ out' = Msg(delta_text', <<>>)
             /\ UNCHANGED parser]_vars

\* after "hi" a blank delta was passed through as it is
C30_Witness ==
    /\ op = "stream"
    /\ current_text = <<"hi", SP>>
    /\ delta_text = <<SP>>
    /\ out = Msg(<<SP>>, <<>>)
    /\ narration = <<"hi", SP>>
    /\ StateUnchanged

\* seq is before with exactly one entry appended
OneAppended(before, seq) ==
    /\ Len(seq) = Len(before) + 1
    /\ SubSeq(seq, 1, Len(before)) = before

\* C31: the emission history is append-only and changes only on emission.
\* Every streaming step either returns no call and leaves current_tool_id,
\* prev_tool_call_arr and streamed_args_for_tool as they were, or returns one
\* call and appends exactly one entry to prev_tool_call_arr and to
\* streamed_args_for_tool, the earlier entries unaltered.
C31_AppendOnly ==
    op \in {"stream", "refeed"} =>
        IF out.tool_calls = <<>>
        THEN StateUnchanged
        ELSE /\ Len(out.tool_calls) = 1
             /\ OneAppended(arr_before, prev_tool_call_arr)
             /\ OneAppended(args_before, streamed_args_for_tool)

\* the streaming step on the text went through the Tag-per-call path
TagPerCallStep(text) ==
    /\ ~StartsWith(Strip(text), OpenTag(THINK))
    /\ ~StartsWith(Strip(text), <<LB>>)
    /\ has_roo_xml_format(text)

\* the closing tag of the tool follows its opening tag; the text between the
\* opening tag and the first closing tag after it
ClosedAfter(text, tool) ==
    In(OpenTag(tool), text) /\ In(CloseTag(tool), AfterTag(text, tool))
Between(text, tool) ==
    Slice(AfterTag(text, tool), 0, Find(AfterTag(text, tool), CloseTag(tool)))

\* the arguments string of a call made of that text alone
ArgumentsBetween(text, tool) ==
    extract_roo_xml_tool_calls(OpenTag(tool) \o Between(text, tool) \o CloseTag(tool))
        .tool_calls[1].arguments

\* C32: streaming Tag-per-call returns only confirmed calls.  Whenever a
\* streaming step returns a call through the Tag-per-call path, the name of
\* the call is a Vocabulary name whose opening tag and matching closing tag
\* are both in the cumulative text, and its arguments are those of the text
\* between the two tags.
C32_ConfirmedOnly ==
    (op = "stream" /\ out.tool_calls # <<>> /\ TagPerCallStep(current_text)) =>
        \E i \in 1..Len(ROO_TOOLS) :
            /\ out.tool_calls[1].name = ROO_TOOLS[i]
            /\ ClosedAfter(current_text, ROO_TOOLS[i])
            /\ out.tool_calls[1].arguments = ArgumentsBetween(current_text, ROO_TOOLS[i])

\* C33: Tag-per-call body delimiting.  For the Vocabulary name the extractor
\* selects, the arguments are those of the text between its opening tag and
\* the closing tag that follows the opening tag; a closing tag before the
\* opening tag does not end or empty the body, and with no closing tag after
\* the opening tag the body runs to the end of the text.
C33_BodyDelimiting ==
    (op = "extract" /\ TagPerCallSelected(model_output)) =>
        /\ Len(result.tool_calls) = 1
        /\ result.tool_calls[1].arguments
              = IF ClosedAfter(model_output, ROO_TOOLS[DeclaredFirst(model_output)])
                THEN ArgumentsBetween(model_output, ROO_TOOLS[DeclaredFirst(model_output)])
                ELSE extract_roo_xml_tool_calls(
                         OpenTag(ROO_TOOLS[DeclaredFirst(model_output)])
                         \o AfterTag(model_output, ROO_TOOLS[DeclaredFirst(model_output)])
                         \o CloseTag(ROO_TOOLS[DeclaredFirst(model_output)]))
                     .tool_calls[1].arguments

\* the text with the tag fragments of the tool, of the Vocabulary and of the
\* two envelopes removed
WithoutFragments(text, tool) ==
    RemoveTag(RemoveTag(RemoveTags(RemoveTag(text, tool), ROO_TOOLS, 1), TOOL_CALL), TOOLS)

\* C34: the sanitizer never returns an empty string.  For every input it
\* returns None or a non-empty string without leading or trailing whitespace;
\* it returns None exactly when nothing but whitespace remains after the tag
\* fragments are removed, so a word that is no part of a tag is kept.
C34_NeverEmpty ==
    /\ \A i \in 1..Len(cleaned) :
          /\ cleaned[i] # <<>>
          /\ cleaned[i] # None => Strip(cleaned[i]) = cleaned[i]
    /\ Len(cleaned) >= 1 =>
          /\ cleaned[1] = None <=> Strip(WithoutFragments(content, tool_name)) = <<>>
          /\ In(<<"hi">>, content) => (cleaned[1] # None /\ In(<<"hi">>, cleaned[1]))

\* a text of blanks and tag fragments only was sanitized to None
C34_Witness ==
    /\ op = "clean"
    /\ In(<<SP>>, content)
    /\ In(<<LT>>, content)
    /\ Len(content) >= 4
    /\ cleaned[1] = None

\* C35: silence after the call.  Once a streaming step has returned a call,
\* every later step of the stream returns nothing, neither a call nor
\* content: text that follows the call is never surfaced.
C35_SilenceAfterCall ==
    (op \in {"stream", "refeed"} /\ Len(calls) > Len(out.tool_calls)) => out = NoneOut

\* the first delta brought a call and two deltas of prose followed: the last
\* step returned nothing and no content was ever returned
C35_Witness ==
    /\ op = "stream"
    /\ steps = 3
    /\ Len(calls) = 1
    /\ delta_text = <<"hi">>
    /\ arr_before # <<>>
    /\ narration = <<>>
    /\ out = NoneOut

\* the name and the arguments of an emitted call record
NameAndArguments(c) == [name |-> c.name, arguments |-> c.arguments]

\* C36: streaming agrees with batch.  However a text is cut into deltas for a
\* fresh stream, once the whole text was delivered the stream has returned a
\* call if and only if extract_tool_calls finds a call in the text, and the
\* name and arguments of the call returned are those of the first call of
\* extract_tool_calls.
C36_StreamAgreesWithBatch ==
    (op = "stream" /\ current_text = model_output) =>
        /\ calls # <<>> <=> extract_tool_calls(model_output).tool_calls # <<>>
        /\ calls # <<>> =>
              NameAndArguments(calls[1]) = extract_tool_calls(model_output).tool_calls[1]

\* the calls a fresh stream returns when the text comes as one delta
OneDelta(text) == extract_tool_calls_streaming(Fresh, <<>>, text, text).out.tool_calls

\* C37: chunking independence of calls.  Any two ways of cutting a text into
\* deltas for fresh streams lead to the same call, or to no call in both:
\* once the whole text was delivered, the calls the stream has returned are
\* those of the stream that gets the text as one delta.
C37_ChunkingIndependence ==
    (op = "stream" /\ current_text = model_output) => calls = OneDelta(model_output)

\* the concatenation of a sequence of strings
RECURSIVE Joined(_)
Joined(strs) == IF strs = <<>> THEN <<>> ELSE Head(strs) \o Joined(Tail(strs))

\* the delta is a fragment of a sentinel, and not the last fragment of one
NonFinalFragment(d) ==
    /\ InArray(d, tool_call_start_token_array) \/ InArray(d, tool_call_end_token_array)
    /\ d # tool_call_start_token_array[Len(tool_call_start_token_array)]
    /\ d # tool_call_end_token_array[Len(tool_call_end_token_array)]

\* C38: the sentinel buffer conserves text.  Over any sequence of calls of
\* tool_call_delta_buffer the strings returned, concatenated, followed by
\* buffered_delta_text equal the deltas handed in, concatenated; a call holds
\* text back only for a delta that is a non-final fragment of a sentinel, and
\* then returns the empty string; after a call with any other delta the
\* buffer is empty.
C38_BufferConserves ==
    /\ Joined(released) \o buffered_delta_text = Joined(fed)
    /\ op = "buffer" =>
          IF NonFinalFragment(fed[Len(fed)])
          THEN released[Len(released)] = <<>>
          ELSE buffered_delta_text = <<>>

\* "<", "tool" and "_call" were held back one after the other and came out
\* with ">" as the whole start sentinel
C38_Witness ==
    /\ op = "buffer"
    /\ Len(tool_call_start_token_array) = 4
    /\ fed = tool_call_start_token_array
    /\ released = << <<>>, <<>>, <<>>, tool_call_start_token >>
    /\ buffered_delta_text = <<>>

====
